---------------------------- MODULE Spec2Model ----------------------------
(***************************************************************************)
(* A model of the two record-keeping services of the repository:           *)
(*   - src/src/code_template.rs : tasks + users (register / login)         *)
(*   - src/src/main.rs          : fitness progress entries                 *)
(* Both keep a Database behind one Mutex (AppState), write the whole       *)
(* Database to "database.json" after every mutation and load it at start.  *)
(***************************************************************************)
EXTENDS Integers, Sequences, FiniteSets, TLC

(***************************************************************************)
(* Bounds of the model.                                                    *)
(***************************************************************************)
\* number of worker threads that may run a handler at the same time
NumProcs == 2
\* requests dispatched in one behaviour
MaxRequests == 2

Procs == 1..NumProcs
\* the u64 keys the requests use
Keys == {1, 2}
NoProc == 0

\* the two services
Variants == {"template", "progress"}

(***************************************************************************)
(* Records.  Payload values are drawn from small sets; two Task values per *)
(* key differ in both fields so that a field-level merge of two of them is *)
(* a third value.                                                          *)
(***************************************************************************)
Task(id, name, completed) == [id |-> id, name |-> name, completed |-> completed]

User(id, username, password) == [id |-> id, username |-> username, password |-> password]

FitnessProgress(id, user_id, date, timezone, steps, calories_burned) ==
    [id |-> id, user_id |-> user_id, date |-> date, timezone |-> timezone,
     steps |-> steps, calories_burned |-> calories_burned]

TaskInputs == {Task(k, "a", FALSE) : k \in Keys} \cup {Task(k, "b", TRUE) : k \in Keys}

UserInputs ==
    {User(k, "a", "p") : k \in Keys} \cup {User(k, "a", "q") : k \in Keys}
        \cup {User(k, "b", "p") : k \in Keys}

LoginInputs == {User(1, "a", "p"), User(1, "a", "q"), User(1, "b", "p")}

ProgressInputs ==
    {FitnessProgress(k, 1, "d1", "utc", 0, 1) : k \in Keys}
        \cup {FitnessProgress(k, 1, "d2", "utc", 1, 0) : k \in Keys}

(***************************************************************************)
(* HashMap<u64, V> as a function on the set of present keys.               *)
(***************************************************************************)
EmptyMap == [k \in {} |-> 0]

HashMap_insert(m, k, v) == [x \in DOMAIN m \cup {k} |-> IF x = k THEN v ELSE m[x]]

HashMap_remove(m, k) == [x \in DOMAIN m \ {k} |-> m[x]]

\* Option<&V>
None == [some |-> FALSE]

Some(v) == [some |-> TRUE, v |-> v]

HashMap_get(m, k) == IF k \in DOMAIN m THEN Some(m[k]) ELSE None

HashMap_values(m) == {m[k] : k \in DOMAIN m}

(***************************************************************************)
(* struct Database and its methods (code_template.rs: tasks, users).       *)
(***************************************************************************)
Database_new == [tasks |-> EmptyMap, users |-> EmptyMap]

\* mutant: entry(id).or_insert(task), which keeps a record already stored
insert_if_absent(db, task) ==
    IF task.id \in DOMAIN db.tasks THEN db
    ELSE [db EXCEPT !.tasks = HashMap_insert(@, task.id, task)]

insert(db, task) == [db EXCEPT !.tasks = HashMap_insert(@, task.id, task)]

get(db, id) == HashMap_get(db.tasks, id)

get_all(db) == HashMap_values(db.tasks)

\* mutant: a lookup where the removal should be
delete_keep(db, id) == db

\* mutant: removes the key or, when it is absent, evicts another one
delete_or_evict(db, id) ==
    IF id \in DOMAIN db.tasks \/ DOMAIN db.tasks = {}
    THEN [db EXCEPT !.tasks = HashMap_remove(@, id)]
    ELSE [db EXCEPT !.tasks = HashMap_remove(@, CHOOSE k \in DOMAIN db.tasks : TRUE)]

delete(db, id) == [db EXCEPT !.tasks = HashMap_remove(@, id)]

\* mutant: a field-level patch of the stored record (only `completed` is taken)
update_merge(db, id, task) ==
    IF id \in DOMAIN db.tasks
    THEN [db EXCEPT !.tasks = HashMap_insert(@, id, [@[id] EXCEPT !.completed = task.completed])]
    ELSE [db EXCEPT !.tasks = HashMap_insert(@, id, task)]

\* mutant: an update that only replaces a record already stored
update_if_present(db, id, task) ==
    IF id \in DOMAIN db.tasks THEN [db EXCEPT !.tasks = HashMap_insert(@, id, task)] ELSE db

update(db, id, task) == [db EXCEPT !.tasks = HashMap_insert(@, id, task)]

\* mutant: users keyed by something else than the record's id
insert_user_misplaced(db, user) ==
    [db EXCEPT !.users = HashMap_insert(@, IF user.username = "a" THEN 1 ELSE 2, user)]

insert_user(db, user) == [db EXCEPT !.users = HashMap_insert(@, user.id, user)]

\* users.values().find(..): the first match in the HashMap's iteration
\* order, which is unspecified: the set of values find may return.
get_user_by_name(db, username) ==
    IF \E u \in HashMap_values(db.users) : u.username = username
    THEN {Some(u) : u \in {w \in HashMap_values(db.users) : w.username = username}}
    ELSE {None}

(***************************************************************************)
(* struct Database and its methods (main.rs: fitness_progress, users).     *)
(***************************************************************************)
Database_new_progress == [fitness_progress |-> EmptyMap, users |-> EmptyMap]

insert_progress(db, progress) ==
    [db EXCEPT !.fitness_progress = HashMap_insert(@, progress.id, progress)]

get_progress(db, id) == HashMap_get(db.fitness_progress, id)

get_all_progress(db) == HashMap_values(db.fitness_progress)

Database_delete_progress(db, id) ==
    [db EXCEPT !.fitness_progress = HashMap_remove(@, id)]

Database_update_progress(db, id, progress) ==
    [db EXCEPT !.fitness_progress = HashMap_insert(@, id, progress)]

(***************************************************************************)
(* The snapshot text.  A file's content is a sequence of JSON lexemes:     *)
(* punctuation, string literals, number literals, true/false, whitespace.  *)
(***************************************************************************)
P(s) == [k |-> "punct", s |-> s]

S(s) == [k |-> "str", s |-> s]

N(s) == [k |-> "num", s |-> s]

L(s) == [k |-> "lit", s |-> s]

W == [k |-> "ws", s |-> " "]

DigitStr == <<"0", "1", "2", "3", "4", "5", "6", "7", "8", "9">>

\* itoa of a number below ten
NumStr(n) == DigitStr[n + 1]

IsNumStr(s) == \E i \in 1..Len(DigitStr) : DigitStr[i] = s

\* str::parse::<u64> of one digit
StrNum(s) == (CHOOSE i \in 1..Len(DigitStr) : DigitStr[i] = s) - 1

BoolStr(b) == IF b THEN "true" ELSE "false"

\* #[derive(Serialize, Deserialize)]: the fields in declaration order
TaskFields ==
    <<[n |-> "id", t |-> [kind |-> "u64"]],
      [n |-> "name", t |-> [kind |-> "str"]],
      [n |-> "completed", t |-> [kind |-> "bool"]]>>

UserFields ==
    <<[n |-> "id", t |-> [kind |-> "u64"]],
      [n |-> "username", t |-> [kind |-> "str"]],
      [n |-> "password", t |-> [kind |-> "str"]]>>

FitnessProgressFields ==
    <<[n |-> "id", t |-> [kind |-> "u64"]],
      [n |-> "user_id", t |-> [kind |-> "u64"]],
      [n |-> "date", t |-> [kind |-> "str"]],
      [n |-> "timezone", t |-> [kind |-> "str"]],
      [n |-> "steps", t |-> [kind |-> "u32"]],
      [n |-> "calories_burned", t |-> [kind |-> "u32"]]>>

DatabaseFields ==
    <<[n |-> "tasks", t |-> [kind |-> "map", of |-> TaskFields]],
      [n |-> "users", t |-> [kind |-> "map", of |-> UserFields]]>>

DatabaseFields_progress ==
    <<[n |-> "fitness_progress", t |-> [kind |-> "map", of |-> FitnessProgressFields]],
      [n |-> "users", t |-> [kind |-> "map", of |-> UserFields]]>>

(***************************************************************************)
(* serde_json::to_string(&self).  Structs are written field by field in    *)
(* declaration order; a HashMap is written as a JSON object whose keys are *)
(* the u64 keys as strings, in the map's iteration order.  That order is   *)
(* unspecified: ord gives, per map field, the order of this traversal.     *)
(***************************************************************************)
Perms(set) ==
    {q \in [1..Cardinality(set) -> set] :
        \A i, j \in 1..Cardinality(set) : q[i] = q[j] => i = j}

RECURSIVE SerFields(_, _, _, _), SerEntries(_, _, _, _)

SerStruct(r, fields, ord) == <<P("{")>> \o SerFields(r, fields, 1, ord) \o <<P("}")>>

SerMap(m, order, fields) == <<P("{")>> \o SerEntries(m, order, 1, fields) \o <<P("}")>>

SerValue(v, t, order, ord) ==
    CASE t.kind \in {"u64", "u32"} -> <<N(NumStr(v))>>
      [] t.kind = "str" -> <<S(v)>>
      [] t.kind = "bool" -> <<L(BoolStr(v))>>
      [] t.kind = "map" -> SerMap(v, order, t.of)

SerFields(r, fields, i, ord) ==
    IF i > Len(fields) THEN <<>>
    ELSE <<S(fields[i].n), P(":")>>
            \o SerValue(r[fields[i].n], fields[i].t,
                        IF fields[i].n \in DOMAIN ord THEN ord[fields[i].n] ELSE <<>>, ord)
            \o (IF i < Len(fields) THEN <<P(",")>> ELSE <<>>)
            \o SerFields(r, fields, i + 1, ord)

SerEntries(m, order, i, fields) ==
    IF i > Len(order) THEN <<>>
    ELSE <<S(NumStr(order[i])), P(":")>>
            \o SerStruct(m[order[i]], fields, EmptyMap)
            \o (IF i < Len(order) THEN <<P(",")>> ELSE <<>>)
            \o SerEntries(m, order, i + 1, fields)

\* the iteration orders the maps of db may have
IterOrders(db) == {ord \in [DOMAIN db -> UNION {Perms(DOMAIN db[f]) : f \in DOMAIN db}] :
                      \A f \in DOMAIN db : ord[f] \in Perms(DOMAIN db[f])}

\* mutant: the last field of the struct is not written (#[serde(skip_serializing)])
to_string_skip_last(db, fields, ord) ==
    SerStruct(db, SubSeq(fields, 1, Len(fields) - 1), ord)

to_string(db, fields, ord) == SerStruct(db, fields, ord)

(***************************************************************************)
(* serde_json::from_str::<Database>(&data).  A derived struct accepts its  *)
(* fields in any order, ignores unknown fields, rejects a duplicate or a   *)
(* missing field; a HashMap<u64, V> accepts an object whose keys parse as  *)
(* u64 (a later duplicate key overwrites); nothing but whitespace may      *)
(* follow the value.                                                       *)
(***************************************************************************)
Fail == [ok |-> FALSE]

Ok(v, next) == [ok |-> TRUE, val |-> v, next |-> next]

TokIs(toks, i, k, s) == i <= Len(toks) /\ toks[i].k = k /\ toks[i].s = s

TokKind(toks, i, k) == i <= Len(toks) /\ toks[i].k = k

FieldNames(fields) == {fields[j].n : j \in 1..Len(fields)}

FieldType(fields, name) == fields[CHOOSE j \in 1..Len(fields) : fields[j].n = name].t

RECURSIVE SkipObject(_, _, _)
\* the index after the object whose opening brace has been read
SkipObject(toks, i, depth) ==
    IF i > Len(toks) THEN Fail
    ELSE IF TokIs(toks, i, "punct", "{") THEN SkipObject(toks, i + 1, depth + 1)
    ELSE IF TokIs(toks, i, "punct", "}")
         THEN IF depth = 1 THEN Ok(0, i + 1) ELSE SkipObject(toks, i + 1, depth - 1)
    ELSE SkipObject(toks, i + 1, depth)

\* serde::de::IgnoredAny
SkipValue(toks, i) ==
    IF i > Len(toks) THEN Fail
    ELSE IF toks[i].k \in {"str", "num", "lit"} THEN Ok(0, i + 1)
    ELSE IF TokIs(toks, i, "punct", "{") THEN SkipObject(toks, i + 1, 1)
    ELSE Fail

RECURSIVE De_fields(_, _, _, _), De_entries(_, _, _, _), De_value(_, _, _)

De_struct(toks, i, fields) ==
    IF ~TokIs(toks, i, "punct", "{") THEN Fail
    ELSE IF TokIs(toks, i + 1, "punct", "}")
         THEN IF FieldNames(fields) = {} THEN Ok(EmptyMap, i + 2) ELSE Fail
    ELSE De_fields(toks, i + 1, fields, EmptyMap)

De_map(toks, i, fields) ==
    IF ~TokIs(toks, i, "punct", "{") THEN Fail
    ELSE IF TokIs(toks, i + 1, "punct", "}") THEN Ok(EmptyMap, i + 2)
    ELSE De_entries(toks, i + 1, fields, EmptyMap)

De_value(toks, i, t) ==
    CASE t.kind \in {"u64", "u32"} ->
            IF TokKind(toks, i, "num") /\ IsNumStr(toks[i].s)
            THEN Ok(StrNum(toks[i].s), i + 1) ELSE Fail
      [] t.kind = "str" ->
            IF TokKind(toks, i, "str") THEN Ok(toks[i].s, i + 1) ELSE Fail
      [] t.kind = "bool" ->
            IF TokKind(toks, i, "lit") /\ toks[i].s \in {"true", "false"}
            THEN Ok(toks[i].s = "true", i + 1) ELSE Fail
      [] t.kind = "map" -> De_map(toks, i, t.of)

De_fields(toks, i, fields, acc) ==
    IF ~(TokKind(toks, i, "str") /\ TokIs(toks, i + 1, "punct", ":")) THEN Fail
    ELSE LET name == toks[i].s
             known == name \in FieldNames(fields)
             v == IF known THEN De_value(toks, i + 2, FieldType(fields, name))
                  ELSE SkipValue(toks, i + 2)
             acc2 == IF known THEN acc @@ (name :> v.val) ELSE acc
         IN  IF known /\ name \in DOMAIN acc THEN Fail
             ELSE IF ~v.ok THEN Fail
             ELSE IF TokIs(toks, v.next, "punct", ",")
                  THEN De_fields(toks, v.next + 1, fields, acc2)
             ELSE IF TokIs(toks, v.next, "punct", "}")
                  THEN IF DOMAIN acc2 = FieldNames(fields)
                       THEN Ok(acc2, v.next + 1) ELSE Fail
             ELSE Fail

De_entries(toks, i, fields, acc) ==
    IF ~(TokKind(toks, i, "str") /\ IsNumStr(toks[i].s)
            /\ TokIs(toks, i + 1, "punct", ":")) THEN Fail
    ELSE LET v == De_struct(toks, i + 2, fields)
             acc2 == HashMap_insert(acc, StrNum(toks[i].s), v.val)
         IN  IF ~v.ok THEN Fail
             ELSE IF TokIs(toks, v.next, "punct", ",")
                  THEN De_entries(toks, v.next + 1, fields, acc2)
             ELSE IF TokIs(toks, v.next, "punct", "}") THEN Ok(acc2, v.next + 1)
             ELSE Fail

IsWs(tok) == tok.k = "ws"

NotWs(tok) == ~IsWs(tok)

\* Result<Database, serde_json::Error>
from_str(data, fields) ==
    LET toks == SelectSeq(data, NotWs)
        r == De_struct(toks, 1, fields)
    IN  IF r.ok /\ r.next = Len(toks) + 1 THEN [ok |-> TRUE, db |-> r.val]
        ELSE [ok |-> FALSE]

\* str::trim(..).is_empty()
trim_is_empty(data) == \A i \in 1..Len(data) : IsWs(data[i])

(***************************************************************************)
(* The file "database.json" and the two load_from_file.                    *)
(***************************************************************************)
NoFile == [exists |-> FALSE, data |-> <<>>]

FileOf(data) == [exists |-> TRUE, data |-> data]

\* fs::read_to_string("database.json")
read_to_string(f) == IF f.exists THEN [ok |-> TRUE, data |-> f.data] ELSE [ok |-> FALSE]

\* mutant: the match guard without its negation
load_from_file_inverted(f) ==
    LET rd == read_to_string(f)
    IN  IF rd.ok /\ trim_is_empty(rd.data)
        THEN from_str(rd.data, DatabaseFields)
        ELSE [ok |-> TRUE, db |-> Database_new]

\* code_template.rs: a missing or blank file is a new Database, a decode
\* error is returned
load_from_file(f) ==
    LET rd == read_to_string(f)
    IN  IF rd.ok /\ ~trim_is_empty(rd.data)
        THEN from_str(rd.data, DatabaseFields)
        ELSE [ok |-> TRUE, db |-> Database_new]

\* main.rs: a read error and a decode error are both returned
load_from_file_progress(f) ==
    LET rd == read_to_string(f)
    IN  IF ~rd.ok THEN [ok |-> FALSE]
        ELSE from_str(rd.data, DatabaseFields_progress)

\* mutant: `Database::load_from_file()?` where the match should be
main_database_propagate(f) ==
    LET r == load_from_file(f)
    IN  IF r.ok THEN [ok |-> TRUE, db |-> r.db] ELSE [ok |-> FALSE]

\* main's `match Database::load_from_file()` (code_template.rs): both arms
\* yield a Database; nothing is returned with `?` before the server runs
main_database(f) ==
    LET r == load_from_file(f)
    IN  IF r.ok THEN [ok |-> TRUE, db |-> r.db] ELSE [ok |-> TRUE, db |-> Database_new]

\* main's `match Database::load_from_file()` (main.rs)
main_database_progress(f) ==
    LET r == load_from_file_progress(f)
    IN  IF r.ok THEN [ok |-> TRUE, db |-> r.db]
        ELSE [ok |-> TRUE, db |-> Database_new_progress]

(***************************************************************************)
(* HTTP responses.                                                         *)
(***************************************************************************)
NoResp == [status |-> 0]

HttpOk == [status |-> 200, kind |-> "empty"]

HttpOkJson(v) == [status |-> 200, kind |-> "json", json |-> v]

HttpOkBody(text) == [status |-> 200, kind |-> "text", text |-> text]

HttpNotFound == [status |-> 404, kind |-> "empty"]

HttpUnauthorized(text) == [status |-> 401, kind |-> "text", text |-> text]

(***************************************************************************)
(* Requests: the handler a route dispatches to and its extracted argument. *)
(***************************************************************************)
NoReq == [op |-> "none"]

Req(op, arg) == [op |-> op, arg |-> arg]

\* the route tables of the two mains
TemplateRoutes == {"create_task", "read_all_tasks", "read_task", "update_task",
                   "delete_task", "register_user", "login_user"}

ProgressRoutes == {"create_progress", "read_all_progress", "read_progress_by_id",
                   "update_progress", "delete_progress"}

Routes(v) == IF v = "template" THEN TemplateRoutes ELSE ProgressRoutes

UpsertOps == {"create_task", "update_task", "register_user",
              "create_progress", "update_progress"}

DeleteOps == {"delete_task", "delete_progress"}

MutatingOps == UpsertOps \cup DeleteOps

(***************************************************************************)
(* State.                                                                  *)
(***************************************************************************)
VARIABLES
    variant,    \* which service this process is
    phase,      \* "boot": main has not run (yet, or since a crash); "serving"
    db,         \* the Database inside AppState.database
    mutex,      \* the thread holding AppState.database's Mutex, or NoProc
    file,       \* database.json
    pc,         \* per worker thread: where its handler stands
    req,        \* per worker thread: the request it is handling
    data,       \* per worker thread: save_to_file's local `data`
    saveres,    \* per worker thread: what save_to_file returned
    resp,       \* per worker thread: the response the handler returns
    replaced,   \* per worker thread: what the store held under the key before
    nreq,       \* requests dispatched so far
    savelog,    \* the saves since main ran: "none" yet, all "ok", or one "failed"
    batch       \* the requests of a batch of concurrent requests

vars == <<variant, phase, db, mutex, file, pc, req, data, saveres, resp, replaced,
          nreq, savelog, batch>>

locals == <<req, data, saveres, resp, replaced>>

(***************************************************************************)
(* Per-service selectors.                                                  *)
(***************************************************************************)
NewDatabase(v) == IF v = "template" THEN Database_new ELSE Database_new_progress

FieldsOf(v) == IF v = "template" THEN DatabaseFields ELSE DatabaseFields_progress

\* what main's load yields
StartDatabase(v, f) ==
    IF v = "template" THEN main_database(f) ELSE main_database_progress(f)

\* Database::load_from_file of the service
Load(v, f) == IF v = "template" THEN load_from_file(f) ELSE load_from_file_progress(f)

\* Database::get / get_progress of the service
GetRecord(v, d, k) == IF v = "template" THEN get(d, k) ELSE get_progress(d, k)

(***************************************************************************)
(* The snapshot files a start may find.                                    *)
(***************************************************************************)
OneRecordDatabase(v) ==
    IF v = "template" THEN insert(Database_new, Task(1, "a", FALSE))
    ELSE insert_progress(Database_new_progress, FitnessProgress(1, 1, "d1", "utc", 0, 1))

Snapshot(v, d) == to_string(d, FieldsOf(v), CHOOSE ord \in IterOrders(d) : TRUE)

BlankFiles == {NoFile, FileOf(<<>>), FileOf(<<W, W>>)}

MalformedFiles(v) ==
    {FileOf(<<P("{"), P("}")>>),
     FileOf(SubSeq(Snapshot(v, OneRecordDatabase(v)), 1, 9)),
     FileOf(Snapshot(v, OneRecordDatabase(v)) \o <<P("}")>>)}

OneRecordFiles(v) == {FileOf(<<W>> \o Snapshot(v, OneRecordDatabase(v)) \o <<W>>)}

InitFiles(v) == BlankFiles \cup MalformedFiles(v) \cup OneRecordFiles(v)

(***************************************************************************)
(* Init: the process has been launched, main has not run yet.              *)
(***************************************************************************)
Idle == [p \in Procs |-> "idle"]

Init ==
    /\ variant \in Variants
    /\ phase = "boot"
    /\ db = NewDatabase(variant)
    /\ mutex = NoProc
    /\ file \in InitFiles(variant)
    /\ pc = Idle
    /\ req = [p \in Procs |-> NoReq]
    /\ data = [p \in Procs |-> <<>>]
    /\ saveres = [p \in Procs |-> "none"]
    /\ resp = [p \in Procs |-> NoResp]
    /\ replaced = [p \in Procs |-> None]
    /\ nreq = 0
    /\ savelog = "none"
    /\ batch = [p \in Procs |-> NoReq]

(***************************************************************************)
(* main: load the Database (or start a new one) and start serving.         *)
(***************************************************************************)
main ==
    /\ phase = "boot"
    /\ LET r == StartDatabase(variant, file)
       IN  IF r.ok THEN db' = r.db /\ phase' = "serving"
           ELSE db' = db /\ phase' = "exited"
    /\ UNCHANGED <<variant, mutex, file, pc, locals, nreq, savelog, batch>>

(***************************************************************************)
(* A request arrives and a worker thread enters its handler.               *)
(***************************************************************************)
Call(p) ==
    /\ phase = "serving"
    /\ pc[p] = "idle"
    /\ nreq < MaxRequests
    /\ pc' = [pc EXCEPT ![p] = "lock"]
    /\ nreq' = nreq + 1
    /\ UNCHANGED <<variant, phase, db, mutex, file, locals, savelog, batch>>

(***************************************************************************)
(* state.database.lock().unwrap(): blocks until the Mutex is free.         *)
(***************************************************************************)
\* mutant: a lock that does not exclude
MutexFree_always == TRUE

MutexFree == mutex = NoProc

Lock(p) ==
    /\ phase = "serving"
    /\ pc[p] = "lock"
    /\ MutexFree
    /\ mutex' = p
    /\ pc' = [pc EXCEPT ![p] = "body"]
    /\ UNCHANGED <<variant, phase, db, file, locals, nreq, savelog, batch>>

\* Thread p is past the lock and its request is r.  The extracted arguments
\* are not read before the guard is taken: the model draws them where the
\* handler first reads them.  A batch fixes the request of each thread.
AtBody(p, r) ==
    /\ phase = "serving"
    /\ pc[p] = "body"
    /\ r.op \in Routes(variant)
    /\ batch[p] \in {NoReq, r}

\* thread p is between its lock() and the drop of its guard
InCritical(p) == pc[p] \in {"body", "save", "write", "ret"}

\* no other thread is where only the guard's holder may be
Exclusive(p) == \A q \in Procs \ {p} : ~InCritical(q)

\* mutant: a handler that returns without save_to_file when its store
\* operation changed nothing
Mutate_skip_noop(p, r, newdb, old) ==
    /\ req' = [req EXCEPT ![p] = r]
    /\ db' = newdb
    /\ replaced' = [replaced EXCEPT ![p] = old]
    /\ pc' = [pc EXCEPT ![p] = IF newdb = db THEN "ret" ELSE "save"]
    /\ resp' = [resp EXCEPT ![p] = IF newdb = db THEN HttpOk ELSE resp[p]]
    /\ UNCHANGED <<variant, phase, mutex, file, data, saveres, nreq, savelog, batch>>

\* A mutating handler: the store operation, then on to save_to_file; old is
\* the Option the HashMap operation returns (and the Database method drops).
\* The operation needs `&mut Database`: were two threads past the lock at
\* once it would be a data race, whose outcome may lose the write.
Mutate(p, r, newdb, old) ==
    /\ req' = [req EXCEPT ![p] = r]
    /\ db' \in (IF Exclusive(p) THEN {newdb} ELSE {newdb, db})
    /\ replaced' = [replaced EXCEPT ![p] = old]
    /\ pc' = [pc EXCEPT ![p] = "save"]
    /\ UNCHANGED <<variant, phase, mutex, file, data, saveres, resp, nreq, savelog, batch>>

\* mutant: a reading handler that takes what it reads out of the store
Answer_draining(p, r, response) ==
    /\ req' = [req EXCEPT ![p] = r]
    /\ resp' = [resp EXCEPT ![p] = response]
    /\ pc' = [pc EXCEPT ![p] = "ret"]
    /\ db' = NewDatabase(variant)
    /\ UNCHANGED <<variant, phase, mutex, file, data, saveres, replaced, nreq, savelog, batch>>

\* a reading handler: the store lookup and the response
Answer(p, r, response) ==
    /\ req' = [req EXCEPT ![p] = r]
    /\ resp' = [resp EXCEPT ![p] = response]
    /\ pc' = [pc EXCEPT ![p] = "ret"]
    /\ UNCHANGED <<variant, phase, db, mutex, file, data, saveres, replaced, nreq, savelog, batch>>

(***************************************************************************)
(* Handlers of code_template.rs.                                           *)
(***************************************************************************)
create_task(p) ==
    \E task \in TaskInputs :
        /\ AtBody(p, Req("create_task", task))
        /\ Mutate(p, Req("create_task", task), insert(db, task), get(db, task.id))

read_task(p) ==
    \E id \in Keys :
        /\ AtBody(p, Req("read_task", id))
        /\ LET found == get(db, id)
           IN  Answer(p, Req("read_task", id),
                      IF found.some THEN HttpOkJson(found.v) ELSE HttpNotFound)

read_all_tasks(p) ==
    /\ AtBody(p, Req("read_all_tasks", 0))
    /\ Answer(p, Req("read_all_tasks", 0), HttpOkJson(get_all(db)))

update_task(p) ==
    \E task \in TaskInputs :
        /\ AtBody(p, Req("update_task", task))
        /\ Mutate(p, Req("update_task", task), update(db, task.id, task), get(db, task.id))

delete_task(p) ==
    \E id \in Keys :
        /\ AtBody(p, Req("delete_task", id))
        /\ Mutate(p, Req("delete_task", id), delete(db, id), get(db, id))

register_user(p) ==
    \E user \in UserInputs :
        /\ AtBody(p, Req("register_user", user))
        /\ Mutate(p, Req("register_user", user), insert_user(db, user),
                  HashMap_get(db.users, user.id))

\* mutant: a login that tells an unknown username from a wrong password
login_user_leaky(p) ==
    \E user \in LoginInputs :
        /\ AtBody(p, Req("login_user", user))
        /\ \E found \in get_user_by_name(db, user.username) :
              Answer(p, Req("login_user", user),
                     IF ~found.some THEN HttpNotFound
                     ELSE IF found.v.password = user.password
                     THEN HttpOkBody("Login successful")
                     ELSE HttpUnauthorized("Login failed"))

login_user(p) ==
    \E user \in LoginInputs :
        /\ AtBody(p, Req("login_user", user))
        /\ \E found \in get_user_by_name(db, user.username) :
              Answer(p, Req("login_user", user),
                     IF found.some /\ found.v.password = user.password
                     THEN HttpOkBody("Login successful")
                     ELSE HttpUnauthorized("Login failed"))

(***************************************************************************)
(* Handlers of main.rs.                                                    *)
(***************************************************************************)
create_progress(p) ==
    \E progress \in ProgressInputs :
        /\ AtBody(p, Req("create_progress", progress))
        /\ Mutate(p, Req("create_progress", progress), insert_progress(db, progress),
                  get_progress(db, progress.id))

read_progress_by_id(p) ==
    \E id \in Keys :
        /\ AtBody(p, Req("read_progress_by_id", id))
        /\ LET found == get_progress(db, id)
           IN  Answer(p, Req("read_progress_by_id", id),
                      IF found.some THEN HttpOkJson(found.v) ELSE HttpNotFound)

read_all_progress(p) ==
    /\ AtBody(p, Req("read_all_progress", 0))
    /\ Answer(p, Req("read_all_progress", 0), HttpOkJson(get_all_progress(db)))

update_progress(p) ==
    \E progress \in ProgressInputs :
        /\ AtBody(p, Req("update_progress", progress))
        /\ Mutate(p, Req("update_progress", progress),
                  Database_update_progress(db, progress.id, progress),
                  get_progress(db, progress.id))

delete_progress(p) ==
    \E id \in Keys :
        /\ AtBody(p, Req("delete_progress", id))
        /\ Mutate(p, Req("delete_progress", id), Database_delete_progress(db, id),
                  get_progress(db, id))

(***************************************************************************)
(* Database::save_to_file, called by every mutating handler with the guard *)
(* held.  Its three statements: to_string, File::create (which truncates   *)
(* database.json), write_all.  The handler drops the Result.               *)
(***************************************************************************)
\* How much of d a write_all that does not complete may have written: any
\* proper prefix.  Every proper prefix fails to decode (ProperPrefixesFail);
\* these lengths stand for them.
WriteCuts(d) == {0, Len(d) \div 2, Len(d) - 1}

\* to_string and File::create
save_create(p) ==
    /\ phase = "serving"
    /\ pc[p] = "save"
    /\ \/ \E ord \in IterOrders(db) :
            /\ data' = [data EXCEPT ![p] = to_string(db, FieldsOf(variant), ord)]
            /\ file' = FileOf(<<>>)
            /\ pc' = [pc EXCEPT ![p] = "write"]
            /\ UNCHANGED <<saveres, resp, savelog>>
       \/ \* File::create returns Err: the `?` leaves save_to_file
          /\ saveres' = [saveres EXCEPT ![p] = "err"]
          /\ resp' = [resp EXCEPT ![p] = HttpOk]
          /\ pc' = [pc EXCEPT ![p] = "ret"]
          /\ savelog' = "failed"
          /\ UNCHANGED <<data, file>>
    /\ UNCHANGED <<variant, phase, db, mutex, req, replaced, nreq, batch>>

\* write_all, then the handler's HttpResponse::Ok().finish()
save_write(p) ==
    /\ phase = "serving"
    /\ pc[p] = "write"
    /\ \/ /\ file' = FileOf(data[p])
          /\ saveres' = [saveres EXCEPT ![p] = "ok"]
          /\ savelog' = IF savelog = "failed" THEN "failed" ELSE "ok"
       \/ \* write_all returns Err after writing a part of data
          /\ \E n \in WriteCuts(data[p]) : file' = FileOf(SubSeq(data[p], 1, n))
          /\ saveres' = [saveres EXCEPT ![p] = "err"]
          /\ savelog' = "failed"
    /\ data' = [data EXCEPT ![p] = <<>>]
    /\ resp' = [resp EXCEPT ![p] = HttpOk]
    /\ pc' = [pc EXCEPT ![p] = "ret"]
    /\ UNCHANGED <<variant, phase, db, mutex, req, replaced, nreq, batch>>

(***************************************************************************)
(* The handler returns: the MutexGuard is dropped, the response goes out.  *)
(***************************************************************************)
\* mutant: the guard is kept on the paths that do not end in success
Return_leak(p) ==
    /\ phase = "serving"
    /\ pc[p] = "ret"
    /\ mutex' = IF mutex = p /\ resp[p].status = 200 /\ saveres[p] # "err" THEN NoProc ELSE mutex
    /\ pc' = [pc EXCEPT ![p] = "idle"]
    /\ req' = [req EXCEPT ![p] = NoReq]
    /\ saveres' = [saveres EXCEPT ![p] = "none"]
    /\ resp' = [resp EXCEPT ![p] = NoResp]
    /\ replaced' = [replaced EXCEPT ![p] = None]
    /\ UNCHANGED <<variant, phase, db, file, data, nreq, savelog, batch>>

Return(p) ==
    /\ phase = "serving"
    /\ pc[p] = "ret"
    /\ mutex' = IF mutex = p THEN NoProc ELSE mutex
    /\ pc' = [pc EXCEPT ![p] = "idle"]
    /\ req' = [req EXCEPT ![p] = NoReq]
    /\ saveres' = [saveres EXCEPT ![p] = "none"]
    /\ resp' = [resp EXCEPT ![p] = NoResp]
    /\ replaced' = [replaced EXCEPT ![p] = None]
    /\ UNCHANGED <<variant, phase, db, file, data, nreq, savelog, batch>>

(***************************************************************************)
(* The process dies (killed, power loss): memory is gone, the file stays.  *)
(* A death inside write_all leaves the part of data written so far.        *)
(***************************************************************************)
Crash ==
    /\ phase = "serving"
    /\ \/ UNCHANGED file
       \/ \E p \in Procs :
            /\ pc[p] = "write"
            /\ \E n \in WriteCuts(data[p]) : file' = FileOf(SubSeq(data[p], 1, n))
    /\ phase' = "boot"
    /\ db' = NewDatabase(variant)
    /\ mutex' = NoProc
    /\ pc' = Idle
    /\ req' = [p \in Procs |-> NoReq]
    /\ data' = [p \in Procs |-> <<>>]
    /\ saveres' = [p \in Procs |-> "none"]
    /\ resp' = [p \in Procs |-> NoResp]
    /\ replaced' = [p \in Procs |-> None]
    /\ savelog' = "none"
    /\ UNCHANGED <<variant, nreq, batch>>

Handler(p) ==
    \/ create_task(p) \/ read_task(p) \/ read_all_tasks(p) \/ update_task(p)
    \/ delete_task(p) \/ register_user(p) \/ login_user(p)
    \/ create_progress(p) \/ read_progress_by_id(p) \/ read_all_progress(p)
    \/ update_progress(p) \/ delete_progress(p)

Next ==
    \/ main
    \/ Crash
    \/ \E p \in Procs :
        \/ Call(p)
        \/ Lock(p)
        \/ Handler(p)
        \/ save_create(p)
        \/ save_write(p)
        \/ Return(p)

Spec == Init /\ [][Next]_vars

(***************************************************************************)
(* A batch of concurrent requests: every worker thread has been handed one *)
(* upsert request (create / update / register) at the same time, and the   *)
(* handlers run in any interleaving until all have returned.               *)
(***************************************************************************)
BatchRequests(v) ==
    IF v = "template"
    THEN {Req("create_task", Task(k, "a", FALSE)) : k \in Keys}
            \cup {Req("update_task", Task(k, "b", TRUE)) : k \in Keys}
            \cup {Req("register_user", User(k, "a", "p")) : k \in Keys}
    ELSE {Req("create_progress", FitnessProgress(k, 1, "d1", "utc", 0, 1)) : k \in Keys}
            \cup {Req("update_progress", FitnessProgress(k, 1, "d2", "utc", 1, 0)) : k \in Keys}

InitBatch ==
    /\ variant \in Variants
    /\ phase = "serving"
    /\ db = NewDatabase(variant)
    /\ mutex = NoProc
    /\ file = NoFile
    /\ pc = [p \in Procs |-> "lock"]
    /\ req = [p \in Procs |-> NoReq]
    /\ data = [p \in Procs |-> <<>>]
    /\ saveres = [p \in Procs |-> "none"]
    /\ resp = [p \in Procs |-> NoResp]
    /\ replaced = [p \in Procs |-> None]
    /\ nreq = NumProcs
    /\ savelog = "none"
    /\ batch \in [Procs -> BatchRequests(variant)]

NextBatch ==
    \E p \in Procs :
        \/ Lock(p)
        \/ create_task(p)
        \/ update_task(p)
        \/ register_user(p)
        \/ create_progress(p)
        \/ update_progress(p)
        \/ save_create(p)
        \/ save_write(p)
        \/ Return(p)

SpecBatch == InitBatch /\ [][NextBatch]_vars

(***************************************************************************)
(* Vocabulary of the properties.                                           *)
(***************************************************************************)
CreateOps == {"create_task", "create_progress"}

UpdateOps == {"update_task", "update_progress"}

ReadOps == {"read_task", "read_progress_by_id"}

\* the key a request targets
KeyOf(r) == IF r.op \in DeleteOps \cup ReadOps THEN r.arg ELSE r.arg.id

\* the map and key an upsert request writes
SlotOf(r) == <<IF r.op = "register_user" THEN "users" ELSE "records", r.arg.id>>

\* the store holds the record of upsert request r under its key
Stored(v, d, r) ==
    IF r.op = "register_user" THEN HashMap_get(d.users, r.arg.id) = Some(r.arg)
    ELSE GetRecord(v, d, r.arg.id) = Some(r.arg)

\* thread p has done its store operation and not yet returned
PastBody(p) == pc[p] \in {"save", "write", "ret"}

\* the step in which thread p does the store operation of a mutating handler
MutationStep(p) == pc[p] = "body" /\ pc'[p] = "save"

\* a step of thread p's handler that reads the store, mutates it or writes
\* the snapshot
AccessStep(p) == pc[p] \in {"body", "save", "write"} /\ pc'[p] # pc[p] /\ phase' = "serving"

\* the step of main
MainStep == phase = "boot" /\ phase' # "boot"

\* load_from_file returned Ok(d)
Loaded(d) == [ok |-> TRUE, db |-> d]

IsBlank(f) == ~f.exists \/ trim_is_empty(f.data)

IsMalformed(v, f) == f.exists /\ ~trim_is_empty(f.data) /\ ~from_str(f.data, FieldsOf(v)).ok

\* every proper prefix of a serialized Database fails to decode
ProperPrefixesFail ==
    \A p \in Procs : pc[p] = "write" =>
        \A n \in 0..(Len(data[p]) - 1) :
            ~from_str(SubSeq(data[p], 1, n), FieldsOf(variant)).ok

(***************************************************************************)
(* C1.  N concurrent upsert requests (create / update / register) on       *)
(* pairwise distinct keys: under every interleaving each request returns   *)
(* success, and the record of every request that has done its store        *)
(* operation is in the store from then on, so that once all have returned  *)
(* the store contains all N records.                                       *)
(***************************************************************************)
BatchDistinct == \A p, q \in Procs : p # q => SlotOf(batch[p]) # SlotOf(batch[q])

C1_NoLostUpdate ==
    /\ \A p \in Procs : pc[p] = "ret" => resp[p] = HttpOk
    /\ BatchDistinct =>
         \A p \in Procs : pc[p] \in {"save", "write", "ret", "idle"} =>
                              Stored(variant, db, batch[p])

C1_Witness ==
    /\ BatchDistinct
    /\ \A p \in Procs : pc[p] = "idle" /\ Stored(variant, db, batch[p])
    /\ \E p, q \in Procs : batch[p].op # batch[q].op

(***************************************************************************)
(* C2.  At most one handler is past its lock() at any time, and it is the  *)
(* holder of the guard; every handler step that reads the store, mutates   *)
(* it or writes the snapshot is taken by the holder while no other handler *)
(* is past its lock(), and while the server runs nothing else changes the  *)
(* store or the snapshot: no two mutations interleave and no reader sees a *)
(* mutation in progress.                                                   *)
(***************************************************************************)
MutualExclusion == \A p \in Procs : InCritical(p) => mutex = p /\ Exclusive(p)

AccessUnderGuard ==
    /\ \A p \in Procs : AccessStep(p) => mutex = p /\ Exclusive(p)
    /\ (phase = "serving" /\ phase' = "serving" /\ (db' # db \/ file' # file))
          => \E p \in Procs : AccessStep(p)

C2_GuardedAccess == [](MutualExclusion) /\ [][AccessUnderGuard]_vars

C2_Witness ==
    \E p, q \in Procs : p # q /\ pc[p] = "write" /\ mutex = p /\ pc[q] = "lock"

(***************************************************************************)
(* C3.  After a create request for record r with key k has done its        *)
(* insert, get(k) returns Some(r), whatever the store held before; and     *)
(* while the server runs, get(k) changes only in the store operation of a  *)
(* mutating request that targets k.                                        *)
(***************************************************************************)
GetChangesOnlyByMutationOfKey ==
    \A k \in Keys :
        (phase = "serving" /\ phase' = "serving"
            /\ GetRecord(variant, db', k) # GetRecord(variant, db, k))
        => \E p \in Procs : /\ MutationStep(p)
                            /\ req'[p].op \in CreateOps \cup UpdateOps \cup DeleteOps
                            /\ KeyOf(req'[p]) = k

C3_InsertThenGet ==
    /\ [](\A p \in Procs : (PastBody(p) /\ req[p].op \in CreateOps) =>
              GetRecord(variant, db, req[p].arg.id) = Some(req[p].arg))
    /\ [][GetChangesOnlyByMutationOfKey]_vars

C3_Witness ==
    \E p \in Procs : /\ pc[p] = "ret"
                     /\ req[p].op \in CreateOps
                     /\ replaced[p].some
                     /\ replaced[p].v # req[p].arg

(***************************************************************************)
(* C4.  After an update request (k, r2) has done its store operation,      *)
(* get(k) returns exactly Some(r2), also when k held another record r1;    *)
(* the operation leaves the record of every other key, and the users,      *)
(* unchanged.                                                              *)
(***************************************************************************)
UpdateLeavesOthers ==
    \A p \in Procs :
        (MutationStep(p) /\ req'[p].op \in UpdateOps) =>
            /\ \A j \in Keys \ {req'[p].arg.id} :
                   GetRecord(variant, db', j) = GetRecord(variant, db, j)
            /\ db'.users = db.users

C4_UpdateReplaces ==
    /\ [](\A p \in Procs : (PastBody(p) /\ req[p].op \in UpdateOps) =>
              GetRecord(variant, db, req[p].arg.id) = Some(req[p].arg))
    /\ [][UpdateLeavesOthers]_vars

C4_Witness ==
    \E p \in Procs : /\ pc[p] = "ret"
                     /\ req[p].op \in UpdateOps
                     /\ req[p].arg.id = 2
                     /\ replaced[p].some
                     /\ replaced[p].v # req[p].arg
                     /\ GetRecord(variant, db, 1).some

(***************************************************************************)
(* C5.  A delete request for k returns success whether or not k was        *)
(* present, and after its store operation get(k) is None; a read request   *)
(* for an absent key answers 404; while the server runs, an absent key     *)
(* becomes present only by a create or update request that targets it.     *)
(***************************************************************************)
AbsentUntilInserted ==
    \A k \in Keys :
        (phase = "serving" /\ phase' = "serving"
            /\ ~GetRecord(variant, db, k).some /\ GetRecord(variant, db', k).some)
        => \E p \in Procs : /\ MutationStep(p)
                            /\ req'[p].op \in CreateOps \cup UpdateOps
                            /\ KeyOf(req'[p]) = k

C5_DeleteThenAbsent ==
    /\ [](\A p \in Procs :
            /\ (PastBody(p) /\ req[p].op \in DeleteOps) =>
                   ~GetRecord(variant, db, req[p].arg).some
            /\ (pc[p] = "ret" /\ req[p].op \in DeleteOps) => resp[p] = HttpOk
            /\ (pc[p] = "ret" /\ req[p].op \in ReadOps
                    /\ ~GetRecord(variant, db, req[p].arg).some) => resp[p] = HttpNotFound)
    /\ [][AbsentUntilInserted]_vars

C5_Witness ==
    \E p \in Procs : /\ pc[p] = "ret"
                     /\ req[p].op \in DeleteOps
                     /\ ~replaced[p].some
                     /\ resp[p] = HttpOk
                     /\ \E j \in Keys : GetRecord(variant, db, j).some

(***************************************************************************)
(* C6.  delete is idempotent: applying delete(k) to the store a delete(k)  *)
(* request has just produced gives that same store, and a delete request   *)
(* for a key that is absent (as it is after a first delete) leaves the     *)
(* store as it was; when such a request's save succeeds, the snapshot      *)
(* holds that same store.                                                  *)
(***************************************************************************)
DeleteOf(v, d, k) == IF v = "template" THEN delete(d, k) ELSE Database_delete_progress(d, k)

DeleteTwiceIsOnce ==
    \A p \in Procs :
        (MutationStep(p) /\ req'[p].op \in DeleteOps) =>
            /\ DeleteOf(variant, db', req'[p].arg) = db'
            /\ ~GetRecord(variant, db, req'[p].arg).some => db' = db

C6_DeleteIdempotent ==
    /\ [][DeleteTwiceIsOnce]_vars
    /\ [](\A p \in Procs :
            (pc[p] = "ret" /\ req[p].op \in DeleteOps /\ ~replaced[p].some
                /\ saveres[p] = "ok")
            => Load(variant, file) = Loaded(db))

C6_Witness ==
    \E p \in Procs : /\ pc[p] = "ret"
                     /\ req[p].op \in DeleteOps
                     /\ ~replaced[p].some
                     /\ saveres[p] = "ok"
                     /\ nreq = MaxRequests
                     /\ \E j \in Keys : GetRecord(variant, db, j).some

(***************************************************************************)
(* C7.  Round trip: the text save_to_file serializes decodes to the store  *)
(* it was made from, in every entity map and for every iteration order of  *)
(* the maps; after a save that succeeded, load_from_file returns Ok with a *)
(* store equal to the saved one, the empty store included.                 *)
(***************************************************************************)
C7_RoundTrip ==
    /\ \A p \in Procs : pc[p] = "write" =>
           from_str(data[p], FieldsOf(variant)) = Loaded(db)
    /\ \A p \in Procs : (pc[p] = "ret" /\ saveres[p] = "ok") =>
           Load(variant, file) = Loaded(db)

C7_Witness ==
    \E p \in Procs : /\ pc[p] = "ret"
                     /\ saveres[p] = "ok"
                     /\ req[p].op \in DeleteOps
                     /\ replaced[p].some
                     /\ db = NewDatabase(variant)
                     /\ Load(variant, file) = Loaded(NewDatabase(variant))

(***************************************************************************)
(* C8.  Startup recovery: main, finding database.json missing, empty or    *)
(* whitespace-only, starts serving with an empty store; finding a snapshot *)
(* with one valid record, it starts serving with a store that holds        *)
(* exactly that record.  In both services.                                 *)
(***************************************************************************)
StartupRecovers ==
    MainStep =>
        /\ IsBlank(file) => (phase' = "serving" /\ db' = NewDatabase(variant))
        /\ file \in OneRecordFiles(variant) =>
               (phase' = "serving" /\ db' = OneRecordDatabase(variant))

C8_StartupRecovery == [][StartupRecovers]_vars

C8_Witness ==
    /\ phase = "serving"
    /\ nreq = 0
    /\ file \in OneRecordFiles(variant)
    /\ db = OneRecordDatabase(variant)
    /\ db # NewDatabase(variant)

(***************************************************************************)
(* C9.  A database.json whose content does not decode is not fatal: main   *)
(* starts serving, with a new empty store, in both services.               *)
(***************************************************************************)
MalformedIsNotFatal ==
    (MainStep /\ IsMalformed(variant, file)) =>
        (phase' = "serving" /\ db' = NewDatabase(variant))

C9_MalformedNonFatal == [][MalformedIsNotFatal]_vars

C9_Witness ==
    /\ phase = "serving"
    /\ nreq = 0
    /\ IsMalformed(variant, file)
    /\ db = NewDatabase(variant)

(***************************************************************************)
(* C10.  Atomic save: when the process dies while a handler is inside      *)
(* save_to_file, database.json as the next start finds it is a complete    *)
(* snapshot, from which load_from_file returns the new store or the store  *)
(* of the save before; it is never empty, truncated or partly written.     *)
(***************************************************************************)
\* the store before the store operation of the request thread p is serving
StoreBefore(p) ==
    LET r == req[p]
        m == IF r.op = "register_user" THEN "users"
             ELSE IF variant = "template" THEN "tasks" ELSE "fitness_progress"
        k == KeyOf(r)
    IN  [db EXCEPT ![m] = IF replaced[p].some THEN HashMap_insert(db[m], k, replaced[p].v)
                          ELSE HashMap_remove(db[m], k)]

DiesInsideSave(p) == phase = "serving" /\ phase' = "boot" /\ pc[p] = "write"

CrashLeavesCompleteSnapshot ==
    \A p \in Procs :
        DiesInsideSave(p) =>
            /\ ~IsBlank(file')
            /\ Load(variant, file') \in {Loaded(db), Loaded(StoreBefore(p))}

C10_AtomicSave == [][CrashLeavesCompleteSnapshot]_vars

(***************************************************************************)
(* C11.  Every mutating handler (create, update, delete, register) calls   *)
(* save_to_file exactly once: it goes from its store operation into        *)
(* save_to_file, also when the operation changed nothing (a delete of an   *)
(* absent key); save_to_file runs with the guard held, before the response *)
(* exists, and has not run before in this request; when the handler is     *)
(* about to return, save_to_file has returned and the guard is still held; *)
(* from there the handler only returns.  A read handler (get, list, login) *)
(* goes from its lookup straight to its response, and save_to_file never   *)
(* runs for it.                                                            *)
(***************************************************************************)
InSave(p) == pc[p] \in {"save", "write"}

SaveOncePerMutation ==
    \A p \in Procs :
        /\ InSave(p) => /\ req[p].op \in MutatingOps
                        /\ mutex = p
                        /\ saveres[p] = "none"
                        /\ resp[p] = NoResp
        /\ (pc[p] = "ret" /\ req[p].op \in MutatingOps) =>
               (saveres[p] \in {"ok", "err"} /\ mutex = p)
        /\ (pc[p] = "ret" /\ req[p].op \notin MutatingOps) => saveres[p] = "none"

SaveFollowsStoreOperation ==
    \A p \in Procs :
        /\ (pc[p] = "body" /\ pc'[p] # "body" /\ phase' = "serving") =>
               IF req'[p].op \in MutatingOps THEN pc'[p] = "save"
               ELSE pc'[p] = "ret" /\ file' = file
        /\ (pc[p] = "save" /\ phase' = "serving") => pc'[p] \in {"save", "write", "ret"}
        /\ (pc[p] = "write" /\ phase' = "serving") => pc'[p] \in {"write", "ret"}
        /\ (pc[p] = "ret" /\ phase' = "serving") => pc'[p] \in {"ret", "idle"}
        /\ pc'[p] = "save" => pc[p] \in {"body", "save"}

C11_SaveOnce == [](SaveOncePerMutation) /\ [][SaveFollowsStoreOperation]_vars

C11_Witness ==
    \E p \in Procs : /\ pc[p] = "ret"
                     /\ req[p].op \in DeleteOps
                     /\ ~replaced[p].some
                     /\ saveres[p] \in {"ok", "err"}
                     /\ mutex = p
                     /\ db = NewDatabase(variant)

(***************************************************************************)
(* C12.  A failed save_to_file is swallowed: the handler still answers     *)
(* 200 with an empty body, the store keeps the mutation (the record of an  *)
(* upsert is stored, the key of a delete is absent), and the return        *)
(* releases the guard and leaves the store as it is.  Requests that follow *)
(* are answered from the in-memory store: a read answers with the record   *)
(* the store holds, whatever database.json holds.                          *)
(***************************************************************************)
MutationApplied(p) ==
    IF req[p].op \in DeleteOps THEN ~GetRecord(variant, db, req[p].arg).some
    ELSE Stored(variant, db, req[p])

ReadAnswer(p) ==
    LET found == GetRecord(variant, db, req[p].arg)
    IN  IF found.some THEN HttpOkJson(found.v) ELSE HttpNotFound

FailedSaveSwallowed ==
    \A p \in Procs :
        /\ (pc[p] = "ret" /\ saveres[p] = "err") =>
               (resp[p] = HttpOk /\ MutationApplied(p))
        /\ (pc[p] = "ret" /\ req[p].op \in ReadOps) => resp[p] = ReadAnswer(p)

FailedSaveReleasesGuard ==
    \A p \in Procs :
        (pc[p] = "ret" /\ pc'[p] = "idle" /\ saveres[p] = "err" /\ phase' = "serving") =>
            (mutex' = NoProc /\ db' = db)

C12_SaveFailureSwallowed == [](FailedSaveSwallowed) /\ [][FailedSaveReleasesGuard]_vars

C12_Witness ==
    \E p \in Procs : /\ pc[p] = "ret"
                     /\ req[p].op \in ReadOps
                     /\ savelog = "failed"
                     /\ resp[p].status = 200
                     /\ Load(variant, file) # Loaded(db)

(***************************************************************************)
(* C13.  Write-through durability: when a mutating handler returns 200,    *)
(* database.json holds the mutation, so that a start from the file as it   *)
(* is restores a store with the mutation's effect (the record of an        *)
(* upsert stored, the key of a delete absent).                             *)
(***************************************************************************)
\* the store main would start with, were the process restarted now
RestoredStore == StartDatabase(variant, file).db

EffectRestored(r) ==
    IF r.op \in DeleteOps THEN ~GetRecord(variant, RestoredStore, r.arg).some
    ELSE Stored(variant, RestoredStore, r)

ReturnedSuccessIsDurable ==
    \A p \in Procs :
        (pc[p] = "ret" /\ pc'[p] = "idle" /\ phase' = "serving"
            /\ req[p].op \in MutatingOps /\ resp[p] = HttpOk)
        => EffectRestored(req[p])

C13_WriteThrough == [][ReturnedSuccessIsDurable]_vars

(***************************************************************************)
(* The template service started on the snapshot an earlier run left after  *)
(* one register request; from there register and login requests.          *)
(***************************************************************************)
OneUserDatabase == insert_user(Database_new, User(1, "a", "p"))

InitLogin ==
    /\ variant = "template"
    /\ phase = "boot"
    /\ db = Database_new
    /\ mutex = NoProc
    /\ file = FileOf(Snapshot("template", OneUserDatabase))
    /\ pc = Idle
    /\ req = [p \in Procs |-> NoReq]
    /\ data = [p \in Procs |-> <<>>]
    /\ saveres = [p \in Procs |-> "none"]
    /\ resp = [p \in Procs |-> NoResp]
    /\ replaced = [p \in Procs |-> None]
    /\ nreq = 0
    /\ savelog = "none"
    /\ batch = [p \in Procs |-> NoReq]

NextLogin ==
    \/ main
    \/ Crash
    \/ \E p \in Procs :
        \/ Call(p)
        \/ Lock(p)
        \/ register_user(p)
        \/ login_user(p)
        \/ save_create(p)
        \/ save_write(p)
        \/ Return(p)

SpecLogin == InitLogin /\ [][NextLogin]_vars

(***************************************************************************)
(* C14.  Login succeeds for stored credentials: when the store holds a     *)
(* user with the username and the password of a login request, the        *)
(* request is answered 200 "Login successful".                             *)
(***************************************************************************)
CredentialsStored(d, user) ==
    \E u \in HashMap_values(d.users) :
        u.username = user.username /\ u.password = user.password

C14_LoginSucceeds ==
    \A p \in Procs :
        (pc[p] = "ret" /\ req[p].op = "login_user" /\ CredentialsStored(db, req[p].arg))
        => resp[p] = HttpOkBody("Login successful")

(***************************************************************************)
(* C15.  Login failures are indistinguishable: a login request is answered *)
(* either 200 "Login successful" or 401 "Login failed", and when the store *)
(* holds no user with the request's username and password the answer is    *)
(* 401 "Login failed", the same whether the username is in the store with  *)
(* another password or not in the store at all.                            *)
(***************************************************************************)
UsernameStored(d, user) ==
    \E u \in HashMap_values(d.users) : u.username = user.username

C15_LoginFailuresAlike ==
    \A p \in Procs :
        (pc[p] = "ret" /\ req[p].op = "login_user") =>
            /\ resp[p] \in {HttpOkBody("Login successful"), HttpUnauthorized("Login failed")}
            /\ ~CredentialsStored(db, req[p].arg) =>
                   resp[p] = HttpUnauthorized("Login failed")

C15_Witness ==
    \E p \in Procs : /\ pc[p] = "ret"
                     /\ req[p].op = "login_user"
                     /\ UsernameStored(db, req[p].arg)
                     /\ ~CredentialsStored(db, req[p].arg)
                     /\ resp[p] = HttpUnauthorized("Login failed")
                     /\ \E u \in LoginInputs : ~UsernameStored(db, u)

(***************************************************************************)
(* Contention: every worker thread has been handed a request (of any       *)
(* route) at the same time and waits in lock(); the handlers run in any    *)
(* interleaving until all have returned.  Fairness: a thread that can take *)
(* its next step eventually takes it (the scheduler runs every runnable    *)
(* thread), and a thread waiting for a Mutex that stays free gets it.      *)
(***************************************************************************)
InitWaiting ==
    /\ variant \in Variants
    /\ phase = "serving"
    /\ db = NewDatabase(variant)
    /\ mutex = NoProc
    /\ file = NoFile
    /\ pc = [p \in Procs |-> "lock"]
    /\ req = [p \in Procs |-> NoReq]
    /\ data = [p \in Procs |-> <<>>]
    /\ saveres = [p \in Procs |-> "none"]
    /\ resp = [p \in Procs |-> NoResp]
    /\ replaced = [p \in Procs |-> None]
    /\ nreq = NumProcs
    /\ savelog = "none"
    /\ batch = [p \in Procs |-> NoReq]

\* the next step of thread p, whichever statement it stands at
Step(p) == Lock(p) \/ Handler(p) \/ save_create(p) \/ save_write(p) \/ Return(p)

NextServe == \E p \in Procs : Step(p)

Fairness == \A p \in Procs : WF_vars(Step(p))

FairServe == InitWaiting /\ [][NextServe]_vars /\ Fairness

(***************************************************************************)
(* C16.  The guard is released on every exit path: a handler that returns  *)
(* leaves the Mutex free, whatever its response (200, 404, 401) and        *)
(* whatever save_to_file returned, and a thread that is not in a handler   *)
(* body does not hold it.  Hence, under fair scheduling, with every thread *)
(* waiting in lock() at once, all of them eventually have acquired the     *)
(* guard, completed and returned, and the Mutex is free for good: no       *)
(* request is blocked forever.                                             *)
(***************************************************************************)
ReturnReleases ==
    \A p \in Procs : (pc[p] = "ret" /\ pc'[p] = "idle") => mutex' = NoProc

AllReturned == \A p \in Procs : pc[p] = "idle"

C16_GuardReleased ==
    /\ [](\A p \in Procs : pc[p] \in {"idle", "lock"} => mutex # p)
    /\ [][ReturnReleases]_vars
    /\ <>[](AllReturned /\ mutex = NoProc)

C16_Witness ==
    \E p, q \in Procs : /\ pc[p] = "idle"
                        /\ pc[q] = "ret"
                        /\ mutex = q
                        /\ resp[q].status \in {404, 401}
                        /\ savelog = "failed"

(***************************************************************************)
(* C17.  Snapshot consistency: while the server runs, whenever no handler  *)
(* holds the guard, and since main ran at least one save_to_file has       *)
(* completed and none has failed, database.json decodes to a store equal   *)
(* to the in-memory store; with requests running concurrently the file is  *)
(* never left holding an older store than the memory.                      *)
(***************************************************************************)
C17_SnapshotConsistent ==
    (phase = "serving" /\ mutex = NoProc /\ savelog = "ok") =>
        Load(variant, file) = Loaded(db)

C17_Witness ==
    /\ phase = "serving"
    /\ mutex = NoProc
    /\ savelog = "ok"
    /\ \A k \in Keys : GetRecord(variant, db, k).some
    /\ \E p \in Procs : pc[p] = "lock"
    /\ Load(variant, file) = Loaded(db)

(***************************************************************************)
(* C18.  An update request for a key that is not in the store creates the  *)
(* record: after its store operation get(k) returns the request's record,  *)
(* the request is answered 200, and the store the update leaves is the     *)
(* store an insert of the same record would have left (whether or not the  *)
(* key was there).                                                         *)
(***************************************************************************)
InsertOf(v, d, r) == IF v = "template" THEN insert(d, r) ELSE insert_progress(d, r)

UpdateIsInsert ==
    \A p \in Procs :
        (MutationStep(p) /\ req'[p].op \in UpdateOps) =>
            db' = InsertOf(variant, db, req'[p].arg)

C18_UpdateCreates ==
    /\ [](\A p \in Procs :
            /\ (PastBody(p) /\ req[p].op \in UpdateOps /\ ~replaced[p].some) =>
                   GetRecord(variant, db, req[p].arg.id) = Some(req[p].arg)
            /\ (pc[p] = "ret" /\ req[p].op \in UpdateOps) => resp[p] = HttpOk)
    /\ [][UpdateIsInsert]_vars

C18_Witness ==
    \E p \in Procs : /\ pc[p] = "ret"
                     /\ req[p].op \in UpdateOps
                     /\ ~replaced[p].some
                     /\ resp[p] = HttpOk
                     /\ db = InsertOf(variant, NewDatabase(variant), req[p].arg)

(***************************************************************************)
(* C19.  Key/record agreement: in every store the handlers reach, each     *)
(* record (task, progress entry, user) is stored under the key equal to    *)
(* its own id, and so each map holds exactly one record per key.           *)
(***************************************************************************)
RecordsOf(v, d) == IF v = "template" THEN d.tasks ELSE d.fitness_progress

KeysAgree(m) ==
    /\ \A k \in DOMAIN m : m[k].id = k
    /\ Cardinality(HashMap_values(m)) = Cardinality(DOMAIN m)

C19_KeyAgreement == KeysAgree(RecordsOf(variant, db)) /\ KeysAgree(db.users)

C19_Witness ==
    \E p \in Procs : /\ pc[p] = "ret"
                     /\ req[p].op \in UpsertOps
                     /\ replaced[p].some
                     /\ replaced[p].v # req[p].arg
                     /\ Cardinality(DOMAIN RecordsOf(variant, db)) + Cardinality(DOMAIN db.users) = 2

(***************************************************************************)
(* C20.  Frame of the handlers: a read handler (get by id, list, login)    *)
(* leaves the in-memory store and database.json unchanged in each of its   *)
(* steps (lock, lookup and response, return); the store operation of a     *)
(* task or progress request (create, update, delete) leaves the users map  *)
(* unchanged, and that of a register request leaves the task map           *)
(* unchanged.                                                              *)
(***************************************************************************)
ReadingOps == {"read_task", "read_all_tasks", "login_user",
               "read_progress_by_id", "read_all_progress"}

\* a step of thread p inside a read handler
ReadStep(p) ==
    /\ phase' = "serving"
    /\ \/ pc[p] = "body" /\ pc'[p] = "ret"
       \/ pc[p] = "ret" /\ pc'[p] = "idle" /\ req[p].op \in ReadingOps

HandlerFrame ==
    \A p \in Procs :
        /\ ReadStep(p) => (db' = db /\ file' = file)
        /\ (pc[p] = "body" /\ pc'[p] = "ret") => req'[p].op \in ReadingOps
        /\ (pc[p] = "lock" /\ pc'[p] = "body") => (db' = db /\ file' = file)
        /\ (MutationStep(p) /\ req'[p].op \in CreateOps \cup UpdateOps \cup DeleteOps) =>
               db'.users = db.users
        /\ (MutationStep(p) /\ req'[p].op = "register_user") =>
               RecordsOf(variant, db') = RecordsOf(variant, db)

C20_HandlerFrame == [][HandlerFrame]_vars

C20_Witness ==
    \E p \in Procs : /\ pc[p] = "ret"
                     /\ req[p].op \in ReadingOps
                     /\ resp[p].status = 200
                     /\ db # NewDatabase(variant)
                     /\ Load(variant, file) = Loaded(db)

=============================================================================
